---- MODULE Spec2Model ----
(***************************************************************************)
(* The GetstashedFrontend React component (src/src/GetstashedFrontend.js)  *)
(* as a state machine: the component's useState cells, the wallet          *)
(* adapter's current account, the getBalance calls and link transactions   *)
(* that are outstanding, and one action per event handler, promise         *)
(* continuation or SDK callback.                                           *)
(***************************************************************************)
EXTENDS Integers, Sequences, FiniteSets, TLC

VARIABLES
    currentAccount,    \* useCurrentAccount(): NoAccount or the connected address
    numLinks,          \* useState(1)
    amountPerLink,     \* useState(MIN_AMOUNT), a Number, in units of 1/FloatScale SUI
    generatedLinks,    \* useState([])
    trackedObjectIds,  \* useState([])
    isLoading,         \* useState(false)
    error,             \* useState("")
    balanceInMist,     \* useState(BigInt(0))
    balanceCalls,      \* per owner, the client.getBalance calls not yet settled
    building,          \* the createLinks invocation awaiting ZkSendLinkBuilder.createLinks
    inFlight,          \* transactions handed to signAndExecuteTransaction, callback pending
    lastInput,         \* history: the form handler that ran last and its e.target.value
    lastResult,        \* history: the result handed to the last onSuccess
    balanceOwner,      \* history: the owner whose getBalance answer was stored last
    downloaded,        \* the file handed to the browser by the last download
    balance,           \* useState(null) of src/unnamed/part_001 and part_002, in SUI
    uncaught,          \* the exception the last handler let escape, "" when none
    objectOwners,      \* useState([]) of src/unnamed/part_001
    isFetchingOwners,  \* useState(false) of src/unnamed/part_001
    ownerFetch,        \* the fetchObjectOwners invocation awaiting client.getObject
    lookups            \* history: the answers client.getObject gave that invocation

vars == << currentAccount, numLinks, amountPerLink, generatedLinks, trackedObjectIds,
           isLoading, error, balanceInMist, balanceCalls, building, inFlight, lastInput,
           lastResult, balanceOwner, downloaded, balance, uncaught, objectOwners,
           isFetchingOwners, ownerFetch, lookups >>

-----------------------------------------------------------------------------
(* Program constants.                                                      *)

\* BigInt(1000000000) in the source. MIST amounts are counted here in units
\* of 10^6 MIST (100 links of 0.1 SUI are 10^10 MIST, beyond TLC's integers);
\* BigInt arithmetic is exact, so the scale changes no comparison.
ONE_SUI == 1000

MAX_LINKS == 100

\* A Number holding a SUI amount is the integer k standing for k/FloatScale
\* SUI: one decimal digit finer than the MIST unit, so Math.floor has
\* something to drop.
FloatScale == 10 * ONE_SUI

\* 0.1
MIN_AMOUNT == FloatScale \div 10

\* Bounds of the model.
MaxBalanceCalls == 2
MaxInFlight == 2
MaxTextLen == 3
MaxCreated == 2
MaxEvents == 2

-----------------------------------------------------------------------------
(* JavaScript values.                                                      *)

\* An optional value (a property that may be undefined): <<>> or <<v>>.
Absent == << >>
Some(x) == << x >>
Has(m) == Len(m) > 0
Val(m) == m[1]

NoAccount == "none"

\* The addresses a wallet may connect.
Addresses == {"0xA", "0xB"}
NoBuild == << >>

Min2(a, b) == IF a < b THEN a ELSE b
Max2(a, b) == IF a > b THEN a ELSE b

\* A Number that may be NaN.
NaN == [nan |-> TRUE, val |-> 0]
Num(v) == [nan |-> FALSE, val |-> v]

\* x || d on Numbers: NaN and 0 are falsy.
OrDefault(x, d) == IF x.nan \/ x.val = 0 THEN d ELSE x.val

DigitChars == {"0", "1", "2", "3", "4", "5", "6", "7", "8", "9"}

DigitVal(c) ==
    CASE c = "0" -> 0 [] c = "1" -> 1 [] c = "2" -> 2 [] c = "3" -> 3 [] c = "4" -> 4
      [] c = "5" -> 5 [] c = "6" -> 6 [] c = "7" -> 7 [] c = "8" -> 8 [] c = "9" -> 9

\* A text (e.target.value) is a sequence of one-character strings.
RECURSIVE SkipSpaces(_, _)
SkipSpaces(s, i) ==
    IF i <= Len(s) /\ s[i] = " " THEN SkipSpaces(s, i + 1) ELSE i

\* The index after the longest run of digits of s that starts at i.
RECURSIVE DigitsEnd(_, _)
DigitsEnd(s, i) ==
    IF i <= Len(s) /\ s[i] \in DigitChars THEN DigitsEnd(s, i + 1) ELSE i

\* The decimal value of the digits s[i..j-1].
RECURSIVE DecValue(_, _, _)
DecValue(s, i, j) ==
    IF j <= i THEN 0 ELSE 10 * DecValue(s, i, j - 1) + DigitVal(s[j - 1])

\* The value, in 1/FloatScale, of the fraction digits s[i..j-1], the first
\* of them weighing `weight`; digits finer than 1/FloatScale are dropped.
RECURSIVE FracValue(_, _, _, _)
FracValue(s, i, j, weight) ==
    IF i >= j \/ weight = 0 THEN 0
    ELSE DigitVal(s[i]) * weight + FracValue(s, i + 1, j, weight \div 10)

\* parseInt(text), radix 10: leading blanks, a sign, then the longest run of
\* digits; NaN when there is none. (Texts of the model hold no "x": no hex.)
parseInt(s) ==
    LET b == SkipSpaces(s, 1)
        signed == b <= Len(s) /\ s[b] \in {"-", "+"}
        d == IF signed THEN b + 1 ELSE b
        e == DigitsEnd(s, d)
        v == DecValue(s, d, e)
    IN  IF e = d THEN NaN
        ELSE Num(IF signed /\ s[b] = "-" THEN 0 - v ELSE v)

\* parseFloat(text): leading blanks, a sign, digits, then "." and digits; NaN
\* when neither part holds a digit. (Texts of the model hold no exponent.)
parseFloat(s) ==
    LET b == SkipSpaces(s, 1)
        signed == b <= Len(s) /\ s[b] \in {"-", "+"}
        d == IF signed THEN b + 1 ELSE b
        e == DigitsEnd(s, d)
        dot == e <= Len(s) /\ s[e] = "."
        f == IF dot THEN DigitsEnd(s, e + 1) ELSE e
        nfrac == IF dot THEN f - (e + 1) ELSE 0
        v == DecValue(s, d, e) * FloatScale
               + (IF dot THEN FracValue(s, e + 1, f, FloatScale \div 10) ELSE 0)
    IN  IF e = d /\ nfrac = 0 THEN NaN
        ELSE Num(IF signed /\ s[b] = "-" THEN 0 - v ELSE v)

\* Every text of at most MaxTextLen characters over an alphabet.
Texts(alphabet) == UNION { [1..n -> alphabet] : n \in 0..MaxTextLen }

-----------------------------------------------------------------------------
(* Messages set by setError.                                               *)

ErrNoWallet == "Please connect your wallet first."
ErrInsufficient == "Insufficient balance for the requested operation."
ErrCreate == "Failed to create links. Please try again."
ErrTransaction == "Transaction failed. Please try again."
ErrBalance == "Failed to fetch balance. Please try again."

-----------------------------------------------------------------------------
(* Rendering. `client` is a new SuiClient in every render and is one of    *)
(* the effect's dependencies, so the effect runs after every render: a     *)
(* render with an account connected calls client.getBalance for it.        *)

\* fetchBalance of the effect, run for the account of the render.
fetchBalance(acct, calls) ==
    IF acct = NoAccount THEN calls ELSE [calls EXCEPT ![acct] = @ + 1]

\* The effect run only when the account changed (`client` kept out of its
\* dependencies).
RenderAccountOnly(changed, calls) ==
    /\ (currentAccount' # currentAccount /\ currentAccount' # NoAccount)
          => calls[currentAccount'] < MaxBalanceCalls
    /\ balanceCalls' = IF currentAccount' # currentAccount
                       THEN fetchBalance(currentAccount', calls) ELSE calls

\* The render a handler's state updates cause (none when no cell changed),
\* with `calls` the outstanding calls the handler itself leaves.
Render(changed, calls) ==
    /\ (changed /\ currentAccount' # NoAccount)
          => calls[currentAccount'] < MaxBalanceCalls
    /\ balanceCalls' = IF changed THEN fetchBalance(currentAccount', calls) ELSE calls

Init ==
    /\ currentAccount = NoAccount
    /\ numLinks = 1
    /\ amountPerLink = MIN_AMOUNT
    /\ generatedLinks = << >>
    /\ trackedObjectIds = << >>
    /\ isLoading = FALSE
    /\ error = ""
    /\ balanceInMist = 0
    /\ balanceCalls = [a \in Addresses |-> 0]
    /\ building = NoBuild
    /\ inFlight = << >>
    /\ lastInput = [handler |-> "none", text |-> << >>]
    /\ lastResult = << >>
    /\ balanceOwner = NoAccount
    /\ downloaded = Absent
    /\ balance = Absent
    /\ uncaught = ""
    /\ objectOwners = << >>
    /\ isFetchingOwners = FALSE
    /\ ownerFetch = Absent
    /\ lookups = << >>

-----------------------------------------------------------------------------
(* Form State.                                                             *)

\* The clamp without its lower end, and without its upper end.
ClampLinksNoLower(value) == Min2(value, MAX_LINKS)
ClampLinksNoUpper(value) == Max2(1, value)

\* Math.min(Math.max(1, value), MAX_LINKS)
ClampLinks(value) == Min2(Max2(1, value), MAX_LINKS)

handleNumLinksChange(text) ==
    LET value == OrDefault(parseInt(text), 1)
    IN  /\ numLinks' = ClampLinks(value)
        /\ lastInput' = [handler |-> "handleNumLinksChange", text |-> text]
        /\ UNCHANGED << objectOwners, isFetchingOwners, ownerFetch, lookups,
                        balance, balanceOwner, uncaught, downloaded,
                        currentAccount, amountPerLink, generatedLinks, trackedObjectIds,
                        isLoading, error, balanceInMist, building, inFlight, lastResult >>
        /\ Render(numLinks' # numLinks, balanceCalls)

\* The amount stored as parsed.
ClampAmountNone(value) == value

\* Math.max(MIN_AMOUNT, value)
ClampAmount(value) == Max2(MIN_AMOUNT, value)

handleAmountChange(text) ==
    LET value == OrDefault(parseFloat(text), MIN_AMOUNT)
    IN  /\ amountPerLink' = ClampAmount(value)
        /\ lastInput' = [handler |-> "handleAmountChange", text |-> text]
        /\ UNCHANGED << objectOwners, isFetchingOwners, ownerFetch, lookups,
                        balance, balanceOwner, uncaught, downloaded,
                        currentAccount, numLinks, generatedLinks, trackedObjectIds,
                        isLoading, error, balanceInMist, building, inFlight, lastResult >>
        /\ Render(amountPerLink' # amountPerLink, balanceCalls)

-----------------------------------------------------------------------------
(* Wallet Session Adapter: the wallet adapter changes the current account  *)
(* (connect, switch, disconnect) and the component re-renders.             *)

accountChanged(acct) ==
    /\ acct # currentAccount
    /\ currentAccount' = acct
    /\ UNCHANGED << objectOwners, isFetchingOwners, ownerFetch, lookups,
                    balance, balanceOwner, uncaught, downloaded, lastInput, lastResult, numLinks, amountPerLink, generatedLinks, trackedObjectIds,
                    isLoading, error, balanceInMist, building, inFlight >>
    /\ Render(TRUE, balanceCalls)

\* client.getBalance({owner}) resolves: setBalanceInMist(BigInt(totalBalance)).
\* The value is stored whatever the account of the current render is.
balanceFetched(owner, totalBalance) ==
    /\ balanceCalls[owner] > 0
    /\ balanceInMist' = totalBalance
    /\ balanceOwner' = owner
    /\ UNCHANGED << objectOwners, isFetchingOwners, ownerFetch, lookups,
                    balance, uncaught, downloaded, lastInput, lastResult, currentAccount, numLinks, amountPerLink, generatedLinks,
                    trackedObjectIds, isLoading, error, building, inFlight >>
    /\ Render(balanceInMist' # balanceInMist, [balanceCalls EXCEPT ![owner] = @ - 1])

\* client.getBalance({owner}) rejects: the catch block of fetchBalance.
balanceFailed(owner) ==
    /\ balanceCalls[owner] > 0
    /\ error' = ErrBalance
    /\ UNCHANGED << objectOwners, isFetchingOwners, ownerFetch, lookups,
                    balance, balanceOwner, uncaught, downloaded, lastInput, lastResult, currentAccount, numLinks, amountPerLink, generatedLinks,
                    trackedObjectIds, isLoading, balanceInMist, building, inFlight >>
    /\ Render(error' # error, [balanceCalls EXCEPT ![owner] = @ - 1])

-----------------------------------------------------------------------------
(* Link Creation Orchestrator.                                             *)

\* BigInt(Math.floor(suiAmount * Number(ONE_SUI))), the product taken exactly.
convertSUIToMist(suiAmount) == (suiAmount * ONE_SUI) \div FloatScale

\* new ZkSendLinkBuilder({sender, client}) after addClaimableMist(amountInMist);
\* key stands for the builder's own fresh keypair.
LinkBuilder(sender, amountInMist, i) ==
    [sender |-> sender, mist |-> amountInMist, key |-> ToString(i)]

\* Array(numLinks).fill(null).map(() => { ... return link; })
BuildLinks(n, sender, amountInMist) ==
    [i \in 1..n |-> LinkBuilder(sender, amountInMist, i)]

\* The total taken to be the amount of one link.
totalMistNeededOfOneLink == convertSUIToMist(amountPerLink)

\* The locals of createLinks at lines 98-100.
amountInMistOf == convertSUIToMist(amountPerLink)
linksCountOf == Min2(numLinks, MAX_LINKS)
totalMistNeededOf == amountInMistOf * linksCountOf

\* The account check left out.
NotConnectedNeverTrue(acct) == FALSE

\* !currentAccount
NotConnected(acct) == acct = NoAccount

\* balanceInMist < totalMistNeeded
Insufficient(available, totalMistNeeded) == available < totalMistNeeded

\* createLinks raising the loading flag before its two checks.
createLinksLoadingFirst ==
    /\ ~isLoading
    /\ isLoading' = TRUE
    /\ IF NotConnected(currentAccount)
       THEN /\ error' = ErrNoWallet
            /\ UNCHANGED building
       ELSE IF Insufficient(balanceInMist, totalMistNeededOf)
       THEN /\ error' = ErrInsufficient
            /\ UNCHANGED building
       ELSE /\ error' = ""
            /\ building' = Some([links |-> BuildLinks(numLinks, currentAccount, amountInMistOf),
                                 linksCount |-> linksCountOf,
                                 totalMistNeeded |-> totalMistNeededOf])
    /\ UNCHANGED << objectOwners, isFetchingOwners, ownerFetch, lookups,
                    balance, balanceOwner, uncaught, downloaded, lastInput, lastResult,
                    currentAccount, numLinks, amountPerLink, generatedLinks,
                    trackedObjectIds, balanceInMist, inFlight >>
    /\ Render(TRUE, balanceCalls)

\* createLinks, from the click to its first await (or its early return).
\* The button is disabled while isLoading.
createLinks ==
    /\ ~isLoading
    /\ IF NotConnected(currentAccount)
       THEN /\ error' = ErrNoWallet
            /\ UNCHANGED << isLoading, building >>
       ELSE IF Insufficient(balanceInMist, totalMistNeededOf)
       THEN /\ error' = ErrInsufficient
            /\ UNCHANGED << isLoading, building >>
       ELSE /\ isLoading' = TRUE
            /\ error' = ""
            /\ building' = Some([links |-> BuildLinks(numLinks, currentAccount, amountInMistOf),
                                 linksCount |-> linksCountOf,
                                 totalMistNeeded |-> totalMistNeededOf])
    /\ UNCHANGED << objectOwners, isFetchingOwners, ownerFetch, lookups,
                    balance, balanceOwner, uncaught, downloaded, lastInput, lastResult, currentAccount, numLinks, amountPerLink, generatedLinks,
                    trackedObjectIds, balanceInMist, inFlight >>
    /\ Render(error' # error \/ isLoading' # isLoading, balanceCalls)

\* The hand-over of links built again from the form as it is when the
\* builder resolves.
signAndExecuteCurrentForm ==
    /\ Has(building)
    /\ Len(inFlight) < MaxInFlight
    /\ inFlight' = Append(inFlight,
                          [links |-> BuildLinks(numLinks, currentAccount, amountInMistOf),
                           linksCount |-> linksCountOf,
                           totalMistNeeded |-> totalMistNeededOf])
    /\ building' = NoBuild
    /\ isLoading' = FALSE
    /\ UNCHANGED << objectOwners, isFetchingOwners, ownerFetch, lookups,
                    balance, balanceOwner, uncaught, downloaded, lastInput, lastResult,
                    currentAccount, numLinks, amountPerLink, generatedLinks,
                    trackedObjectIds, error, balanceInMist >>
    /\ Render(isLoading' # isLoading, balanceCalls)

\* `await ZkSendLinkBuilder.createLinks({ links })` resolves with the
\* transaction block: it is handed to signAndExecuteTransaction, which is
\* the mutation's `mutate` and returns at once, so the `await` on it takes
\* one microtask and the finally block clears the flag in the same turn.
signAndExecute ==
    /\ Has(building)
    /\ Len(inFlight) < MaxInFlight
    /\ inFlight' = Append(inFlight, Val(building))
    /\ building' = NoBuild
    /\ isLoading' = FALSE
    /\ UNCHANGED << objectOwners, isFetchingOwners, ownerFetch, lookups,
                    balance, balanceOwner, uncaught, downloaded, lastInput, lastResult, currentAccount, numLinks, amountPerLink, generatedLinks,
                    trackedObjectIds, error, balanceInMist >>
    /\ Render(isLoading' # isLoading, balanceCalls)

\* The rejection handled without the finally block.
createLinksFailedNoFinally ==
    /\ Has(building)
    /\ building' = NoBuild
    /\ error' = ErrCreate
    /\ UNCHANGED << objectOwners, isFetchingOwners, ownerFetch, lookups,
                    balance, balanceOwner, uncaught, downloaded, lastInput, lastResult, currentAccount, numLinks, amountPerLink,
                    generatedLinks, trackedObjectIds, isLoading, balanceInMist, inFlight >>
    /\ Render(error' # error, balanceCalls)

\* `await ZkSendLinkBuilder.createLinks({ links })` rejects: catch, finally.
createLinksFailed ==
    /\ Has(building)
    /\ building' = NoBuild
    /\ error' = ErrCreate
    /\ isLoading' = FALSE
    /\ UNCHANGED << objectOwners, isFetchingOwners, ownerFetch, lookups,
                    balance, balanceOwner, uncaught, downloaded, lastInput, lastResult, currentAccount, numLinks, amountPerLink, generatedLinks,
                    trackedObjectIds, balanceInMist, inFlight >>
    /\ Render(error' # error \/ isLoading' # isLoading, balanceCalls)

\* inFlight without its k-th transaction.
Without(seq, k) == SubSeq(seq, 1, k - 1) \o SubSeq(seq, k + 1, Len(seq))

\* onError of the k-th outstanding transaction.
onError(k) ==
    /\ k \in 1..Len(inFlight)
    /\ inFlight' = Without(inFlight, k)
    /\ error' = ErrTransaction
    /\ UNCHANGED << objectOwners, isFetchingOwners, ownerFetch, lookups,
                    balance, balanceOwner, uncaught, downloaded, lastInput, lastResult, currentAccount, numLinks, amountPerLink, generatedLinks,
                    trackedObjectIds, isLoading, balanceInMist, building >>
    /\ Render(error' # error, balanceCalls)

-----------------------------------------------------------------------------
(* The transaction result and the extraction of the created object ids.    *)
(* A result is optional, as is each of its properties: effects, then       *)
(* created (a list of entries) and events (a list of events).              *)

\* result?.effects
EffectsOf(result) == IF Has(result) THEN Val(result).effects ELSE Absent

\* result?.effects?.created and result?.effects?.events
CreatedOf(result) ==
    IF Has(EffectsOf(result)) THEN Val(EffectsOf(result)).created ELSE Absent
EventsOf(result) ==
    IF Has(EffectsOf(result)) THEN Val(EffectsOf(result)).events ELSE Absent

\* Boolean(v) of an optional string: undefined and "" are falsy.
Truthy(m) == Has(m) /\ Val(m) # ""

\* str.includes(word) on a string given as its sequence of tokens.
Includes(tokens, word) == \E i \in 1..Len(tokens) : tokens[i] = word

\* event.type === "created" || event.newObject ||
\* event.moveEvent?.type?.includes("Created")
IsCreatedEvent(event) ==
    \/ Has(event.type) /\ Val(event.type) = "created"
    \/ Has(event.newObject)
    \/ /\ Has(event.moveEvent)
       /\ Has(Val(event.moveEvent).type)
       /\ Includes(Val(Val(event.moveEvent).type), "Created")

\* The id read from event.objectId alone.
EventObjectIdOwnOnly(event) ==
    IF Truthy(event.objectId) THEN event.objectId ELSE Absent

\* event.objectId || event.newObject?.objectId
EventObjectId(event) ==
    IF Truthy(event.objectId) THEN event.objectId
    ELSE IF Has(event.newObject) THEN Val(event.newObject).objectId
    ELSE Absent

\* obj => obj.objectId
EntryObjectId(obj) == obj.objectId

\* The created ids followed by the ids of the events, with no early return.
extractCreatedThenEvents(result) ==
    LET created == IF Has(CreatedOf(result)) THEN Val(CreatedOf(result)) ELSE << >>
        events == IF Has(EventsOf(result)) THEN Val(EventsOf(result)) ELSE << >>
    IN  [i \in 1..Len(created) |-> created[i].objectId]
          \o SelectSeq([i \in 1..Len(events) |->
                          IF Truthy(events[i].objectId) THEN events[i].objectId
                          ELSE IF Has(events[i].newObject)
                          THEN Val(events[i].newObject).objectId ELSE Absent],
                       Truthy)

\* created.map(obj => obj.objectId)
CreatedObjectIds(created) == [i \in 1..Len(created) |-> EntryObjectId(created[i])]

\* createdObjects.map(event => event.objectId || event.newObject?.objectId)
EventObjectIds(events) == [i \in 1..Len(events) |-> EventObjectId(events[i])]

\* The value returned is an array whose elements are optional strings
\* (undefined is Absent).
extractObjectIdsFromResult(result) ==
    IF Has(CreatedOf(result)) /\ Len(Val(CreatedOf(result))) > 0
    THEN CreatedObjectIds(Val(CreatedOf(result)))
    ELSE IF Has(EventsOf(result))
    THEN SelectSeq(EventObjectIds(SelectSeq(Val(EventsOf(result)), IsCreatedEvent)), Truthy)
    ELSE << >>

-----------------------------------------------------------------------------
(* Generated links. A URL is the sequence of its parts.                    *)

\* link.getLink() of the builder, on its default host: the scheme, the host,
\* and the claim path with the link's key.
getLink(link) == << "https://", "zksend.com", link.key >>

\* str.replace(pattern, replacement) with a string pattern: the first
\* occurrence only.
RECURSIVE Replace(_, _, _)
Replace(str, pattern, replacement) ==
    IF str = << >> THEN << >>
    ELSE IF Head(str) = pattern THEN << replacement >> \o Tail(str)
    ELSE << Head(str) >> \o Replace(Tail(str), pattern, replacement)

\* The link as the builder gives it, its host not replaced.
DisplayLinkDefaultHost(link) == getLink(link)

\* link => link.getLink().replace("zksend.com", "getstashed.com")
DisplayLink(link) == Replace(getLink(link), "zksend.com", "getstashed.com")

\* links.map(link => link.getLink().replace(...))
DisplayLinks(links) == [i \in 1..Len(links) |-> DisplayLink(links[i])]

\* onSuccess storing the links and leaving the tracked ids as they were.
onSuccessLinksOnly(k, result, rethrown) ==
    /\ k \in 1..Len(inFlight)
    /\ lastResult' = << result >>
    /\ error' = IF rethrown THEN ErrTransaction ELSE error
    /\ generatedLinks' = DisplayLinks(inFlight[k].links)
    /\ inFlight' = Without(inFlight, k)
    /\ UNCHANGED << objectOwners, isFetchingOwners, ownerFetch, lookups,
                    balance, balanceOwner, uncaught, downloaded, lastInput, currentAccount,
                    numLinks, amountPerLink, isLoading, balanceInMist, building,
                    trackedObjectIds >>
    /\ Render(TRUE, balanceCalls)

\* onSuccess of the k-th outstanding transaction. Its last statement calls
\* fetchBalance, a name declared inside the effect's callback and not in
\* scope here: the call throws a ReferenceError after the two setters ran,
\* and no getBalance call is made by it. What the mutation library does with
\* an exception thrown by a callback is not this repository's code: it may
\* drop it, or report it to onError (`rethrown`). The render the setters
\* cause runs the effect, which fetches the balance.
onSuccess(k, result, rethrown) ==
    /\ k \in 1..Len(inFlight)
    /\ lastResult' = << result >>
    /\ trackedObjectIds' = extractObjectIdsFromResult(result)
    /\ error' = IF rethrown THEN ErrTransaction ELSE error
    /\ generatedLinks' = DisplayLinks(inFlight[k].links)
    /\ inFlight' = Without(inFlight, k)
    /\ UNCHANGED << objectOwners, isFetchingOwners, ownerFetch, lookups,
                    balance, balanceOwner, uncaught, downloaded, lastInput, currentAccount, numLinks, amountPerLink, isLoading,
                    balanceInMist, building >>
    /\ Render(TRUE, balanceCalls)

-----------------------------------------------------------------------------
(* What the component shows.                                               *)

\* (Number(balanceInMist) / Number(ONE_SUI)).toFixed(4): the balance in SUI
\* rounded to four decimals, as its whole part and its ten-thousandths.
formatBalanceInSUI(mist) ==
    LET tenThousandths == (mist * 10000 + ONE_SUI \div 2) \div ONE_SUI
    IN  [whole |-> tenThousandths \div 10000, decimals |-> tenThousandths % 10000]

\* {currentAccount && (... Balance: {formatBalanceInSUI(balanceInMist)} SUI)}:
\* the balance line, rendered only with an account connected.
BalanceShown ==
    IF currentAccount # NoAccount THEN Some(formatBalanceInSUI(balanceInMist)) ELSE Absent

-----------------------------------------------------------------------------
(* The download. A text is the sequence of its parts.                      *)

\* The id written for a list position, with "N/A" for one that has none.
ObjectIdTextBlank(ids, index) ==
    IF index \in 1..Len(ids) /\ Truthy(ids[index]) THEN Val(ids[index]) ELSE ""

\* trackedObjectIds[index] || "N/A": undefined past the end of the array,
\* and for an element that is undefined or "".
ObjectIdText(ids, index) ==
    IF index \in 1..Len(ids) /\ Truthy(ids[index]) THEN Val(ids[index]) ELSE "N/A"

\* `Link: ${link}\nObject ID: ${trackedObjectIds[index] || "N/A"}\n`
DownloadEntry(link, ids, index) ==
    << "Link: " >> \o link \o << "\n", "Object ID: ", ObjectIdText(ids, index), "\n" >>

\* array.join(separator) of texts.
RECURSIVE Join(_, _)
Join(texts, separator) ==
    IF texts = << >> THEN << >>
    ELSE IF Len(texts) = 1 THEN texts[1]
    ELSE texts[1] \o << separator >> \o Join(Tail(texts), separator)

\* str.split(separator)[0]: the text before the first separator.
RECURSIVE SplitFirst(_, _)
SplitFirst(str, separator) ==
    IF str = << >> \/ Head(str) = separator THEN << >>
    ELSE << Head(str) >> \o SplitFirst(Tail(str), separator)

\* `getstashed_links_${new Date().toISOString().split('T')[0]}.txt`, with
\* `now` the ISO text of the clock: the date, "T", the time of day.
DownloadName(now) == << "getstashed_links_" >> \o SplitFirst(now, "T") \o << ".txt" >>

downloadLinksAndObjects(now) ==
    /\ downloaded' = Some(
          [data |-> Join([index \in 1..Len(generatedLinks) |->
                            DownloadEntry(generatedLinks[index], trackedObjectIds, index)],
                         "\n"),
           download |-> DownloadName(now)])
    /\ UNCHANGED << objectOwners, isFetchingOwners, ownerFetch, lookups,
                    balance, balanceOwner, uncaught, lastInput, lastResult, currentAccount,
                    numLinks, amountPerLink, generatedLinks, trackedObjectIds, isLoading,
                    error, balanceInMist, balanceCalls, building, inFlight >>

-----------------------------------------------------------------------------
(* The component in use.                                                   *)

\* An entry of effects.created: with its id as objectId (the shape this
\* file reads), or under reference (the shape src/unnamed/part_000 reads).
Entry(id) == [objectId |-> Some(id), reference |-> Absent]
RefEntry(id) == [objectId |-> Absent, reference |-> Some([objectId |-> Some(id)])]

\* Events of effects.events.
Event(type, objectId, newObject, moveEvent) ==
    [type |-> type, objectId |-> objectId, newObject |-> newObject, moveEvent |-> moveEvent]
NewObjectEvent(id) == Event(Absent, Absent, Some([objectId |-> Some(id)]), Absent)
CreatedEvent(id) == Event(Some("created"), Some(id), Absent, Absent)
MoveCreatedEvent ==
    Event(Absent, Absent, Absent,
          Some([type |-> Some(<< "0x2::link::", "Created" >>), fields |-> Absent]))
\* A move event carrying its object id in fields.object_id (the shape
\* src/unnamed/part_000 reads).
MoveFieldsEvent(id) ==
    Event(Absent, Absent, Absent,
          Some([type |-> Some(<< "0x2::link::", "Minted" >>),
                fields |-> Some([object_id |-> Some(id)])]))
OtherEvent(id) == Event(Some("mutated"), Some(id), Absent, Absent)

Result(created, events) ==
    Some([effects |-> Some([created |-> created, events |-> events])])

\* Every list of at most n elements of a set.
Lists(kinds, n) == UNION { [1..m -> kinds] : m \in 0..n }

LinkTexts == { << "1", "0", "1" >> }
AmountTexts == { << "0", ".", "2", "5", "0", "5" >> }
Balances == {0, 250, 10000}
Results == { Result(Some(<< Entry("0x1") >>), Absent), Some([effects |-> Absent]) }

Next ==
    \/ \E acct \in {NoAccount, "0xA"} : accountChanged(acct)
    \/ \E owner \in Addresses, totalBalance \in Balances : balanceFetched(owner, totalBalance)
    \/ \E owner \in Addresses : balanceFailed(owner)
    \/ \E text \in LinkTexts : handleNumLinksChange(text)
    \/ \E text \in AmountTexts : handleAmountChange(text)
    \/ createLinks
    \/ signAndExecute
    \/ createLinksFailed
    \/ \E k \in 1..MaxInFlight, result \in Results, rethrown \in BOOLEAN :
          onSuccess(k, result, rethrown)
    \/ \E k \in 1..MaxInFlight : onError(k)

Spec == Init /\ [][Next]_vars

\* The link-count input alone, over every text of the alphabet.
FormAlphabet == {"-", ".", "a", "0", "1", "5"}

NextNumLinks == \E text \in Texts(FormAlphabet) : handleNumLinksChange(text)

SpecNumLinks == Init /\ [][NextNumLinks]_vars

\* The amount input alone, over every text of the alphabet.
NextAmount == \E text \in Texts(FormAlphabet) : handleAmountChange(text)

SpecAmount == Init /\ [][NextAmount]_vars

\* Submissions of one account whose results carry every created list of at
\* most MaxCreated entries, with and without events beside it.
EntryKinds == { Entry("0x1"), Entry("0x2"), RefEntry("0x3") }
EventLists ==
    { Absent, Some(<< >>), Some(<< NewObjectEvent("0x8") >>),
      Some(<< CreatedEvent("0x9"), NewObjectEvent("0x8") >>) }
CreatedResults ==
    { Absent, Some([effects |-> Absent]) }
      \cup { Result(created, events) :
               created \in {Absent} \cup { Some(l) : l \in Lists(EntryKinds, MaxCreated) },
               events \in EventLists }

NextExtract ==
    \/ accountChanged("0xA")
    \/ balanceFetched("0xA", 250)
    \/ createLinks
    \/ signAndExecute
    \/ \E result \in CreatedResults : onSuccess(1, result, FALSE)

SpecExtract == Init /\ [][NextExtract]_vars

\* Submissions of one account with a balance that covers every link count
\* typed: two links, and more than the maximum.
NextLinks ==
    \/ accountChanged("0xA")
    \/ balanceFetched("0xA", 10000)
    \/ \E text \in { << "2" >>, << "1", "0", "1" >> } : handleNumLinksChange(text)
    \/ createLinks
    \/ signAndExecute
    \/ \E k \in 1..MaxInFlight, result \in Results, rethrown \in BOOLEAN :
          onSuccess(k, result, rethrown)

SpecLinks == Init /\ [][NextLinks]_vars

\* Downloads at two times of the clock, after submissions of one or two
\* links whose results carry no id, one id, two ids, and an entry without
\* an objectId before one with it.
DownloadResults ==
    { Absent, Result(Some(<< Entry("0x1") >>), Absent),
      Result(Some(<< Entry("0x1"), Entry("0x2") >>), Absent),
      Result(Some(<< RefEntry("0x3"), Entry("0x1") >>), Absent) }
Clock ==
    { << "2024-05-01", "T", "23:59:59.000Z" >>, << "2024-05-02", "T", "00:00:00.000Z" >> }

NextDownload ==
    \/ accountChanged("0xA")
    \/ balanceFetched("0xA", 10000)
    \/ handleNumLinksChange(<< "2" >>)
    \/ createLinks
    \/ signAndExecute
    \/ \E result \in DownloadResults : onSuccess(1, result, FALSE)
    \/ \E now \in Clock : downloadLinksAndObjects(now)

SpecDownload == Init /\ [][NextDownload]_vars

\* Both inputs changed while submissions of one account are built and in
\* flight.
NextForm ==
    \/ accountChanged("0xA")
    \/ balanceFetched("0xA", 10000)
    \/ \E text \in { << "1" >>, << "2" >> } : handleNumLinksChange(text)
    \/ \E text \in { << "0", ".", "1" >>, << "0", ".", "2" >> } : handleAmountChange(text)
    \/ createLinks
    \/ signAndExecute
    \/ \E k \in 1..MaxInFlight, result \in Results : onSuccess(k, result, FALSE)

SpecForm == Init /\ [][NextForm]_vars

\* A wallet whose balance is fetched as nothing or as 250 mist, or not at
\* all, and a form typed into with zero and negative numbers.
NextEmptyWallet ==
    \/ accountChanged("0xA")
    \/ \E totalBalance \in {0, 250} : balanceFetched("0xA", totalBalance)
    \/ balanceFailed("0xA")
    \/ \E text \in { << "0" >>, << "-", "5" >>, << "2" >> } : handleNumLinksChange(text)
    \/ \E text \in { << "0" >>, << "-", "1" >>, << "0", ".", "2" >> } : handleAmountChange(text)
    \/ createLinks
    \/ signAndExecute
    \/ \E k \in 1..MaxInFlight : onError(k)

SpecEmptyWallet == Init /\ [][NextEmptyWallet]_vars

\* Two wallets: switches between them, disconnects, and the getBalance
\* calls of both settling in any order.
NextAccounts ==
    \/ \E acct \in {NoAccount} \cup Addresses : accountChanged(acct)
    \/ \E owner \in Addresses, totalBalance \in {0, 250} : balanceFetched(owner, totalBalance)
    \/ \E owner \in Addresses : balanceFailed(owner)
    \/ createLinks
    \/ signAndExecute
    \/ \E k \in 1..MaxInFlight : onError(k)

SpecAccounts == Init /\ [][NextAccounts]_vars

\* Every list of at most MaxEvents events, of every shape, beside every
\* created list of at most MaxCreated entries.
EventKinds ==
    { NewObjectEvent("0x8"), CreatedEvent("0x9"), MoveCreatedEvent,
      MoveFieldsEvent("0x7"), OtherEvent("0x6") }
AllEventLists == {Absent} \cup { Some(l) : l \in Lists(EventKinds, MaxEvents) }
AllResults ==
    { Absent, Some([effects |-> Absent]) }
      \cup { Result(created, events) :
               created \in {Absent} \cup { Some(l) : l \in Lists(EntryKinds, MaxCreated) },
               events \in AllEventLists }

\* Submissions of one account whose results have no created list, or an
\* empty one, beside every list of at most MaxEvents events; the exception
\* thrown at the end of onSuccess is dropped or reported to onError.
EventResults ==
    { Absent, Some([effects |-> Absent]) }
      \cup { Result(created, events) :
               created \in {Absent, Some(<< >>)}, events \in AllEventLists }

NextEvents ==
    \/ accountChanged("0xA")
    \/ balanceFetched("0xA", 250)
    \/ createLinks
    \/ signAndExecute
    \/ \E result \in EventResults, rethrown \in BOOLEAN : onSuccess(1, result, rethrown)

SpecEvents == Init /\ [][NextEvents]_vars

\* The same submissions with the events this file tells apart (a created
\* event, a newObject event, a move event matched by its type, an event of
\* another type), the exception of onSuccess dropped.
FallbackEventKinds ==
    { NewObjectEvent("0x8"), CreatedEvent("0x9"), MoveCreatedEvent, OtherEvent("0x6") }
FallbackResults ==
    { Absent, Some([effects |-> Absent]) }
      \cup { Result(created, events) :
               created \in {Absent, Some(<< >>)},
               events \in {Absent} \cup { Some(l) : l \in Lists(FallbackEventKinds, MaxEvents) } }

NextFallback ==
    \/ accountChanged("0xA")
    \/ balanceFetched("0xA", 250)
    \/ createLinks
    \/ signAndExecute
    \/ \E result \in FallbackResults : onSuccess(1, result, FALSE)

SpecFallback == Init /\ [][NextFallback]_vars

-----------------------------------------------------------------------------
(* src/unnamed/part_000: the extraction of an earlier draft, which         *)
(* collects into one list.                                                 *)

\* item.reference?.objectId
part000_EntryObjectId(item) ==
    IF Has(item.reference) THEN Val(item.reference).objectId ELSE Absent

\* event.newObject?.objectId, else event.moveEvent?.fields?.object_id
part000_EventObjectId(event) ==
    IF Has(event.newObject) /\ Truthy(Val(event.newObject).objectId)
    THEN Val(event.newObject).objectId
    ELSE IF Has(event.moveEvent) /\ Has(Val(event.moveEvent).fields)
    THEN Val(Val(event.moveEvent).fields).object_id
    ELSE Absent

\* The ids pushed by the forEach over effects.created.
part000_CreatedIds(result) ==
    IF Has(CreatedOf(result)) /\ Len(Val(CreatedOf(result))) > 0
    THEN LET created == Val(CreatedOf(result))
         IN  SelectSeq([i \in 1..Len(created) |-> part000_EntryObjectId(created[i])], Truthy)
    ELSE << >>

\* The ids pushed by the forEach over result?.effects?.events || [].
part000_EventIds(result) ==
    LET events == IF Has(EventsOf(result)) THEN Val(EventsOf(result)) ELSE << >>
    IN  SelectSeq([i \in 1..Len(events) |-> part000_EventObjectId(events[i])], Truthy)

\* objectIds after both loops: the second loop runs whatever the first
\* pushed.
part000_extractObjectIdsFromResult(result) ==
    part000_CreatedIds(result) \o part000_EventIds(result)

\* onSuccess of the draft as far as the ids go:
\* setTrackedObjectIds(extractObjectIdsFromResult(result)).
part000_onSuccess(result) ==
    /\ lastResult' = << result >>
    /\ trackedObjectIds' = part000_extractObjectIdsFromResult(result)
    /\ UNCHANGED << objectOwners, isFetchingOwners, ownerFetch, lookups,
                    balance, balanceOwner, uncaught, downloaded, lastInput, currentAccount, numLinks, amountPerLink, generatedLinks,
                    isLoading, error, balanceInMist, balanceCalls, building, inFlight >>

NextPart000 == \E result \in AllResults : part000_onSuccess(result)

SpecPart000 == Init /\ [][NextPart000]_vars

-----------------------------------------------------------------------------
(* src/unnamed/part_002: a draft that keeps the balance as a Number of SUI *)
(* (null until fetched) and handles the inputs inline.                     *)

part002_ErrInsufficient == "Insufficient balance."
part002_ErrBalance == "Failed to fetch balance."

\* JavaScript numeric values with their type: a Number (here in units of
\* 1/FloatScale) or a BigInt.
JSNumber(v) == [type |-> "number", val |-> v]
JSBigInt(v) == [type |-> "bigint", val |-> v]
TypeError == [type |-> "TypeError", val |-> 0]

\* ToNumeric of an operand of `*`: null becomes the Number 0.
ToNumeric(m) == IF Has(m) THEN JSNumber(Val(m)) ELSE JSNumber(0)

\* x * y: a Number and a BigInt cannot be mixed.
Times(x, y) ==
    IF x.type # y.type THEN TypeError
    ELSE IF x.type = "bigint" THEN JSBigInt(x.val * y.val)
    ELSE JSNumber((x.val * y.val) \div FloatScale)

\* Number(totalBalance) / Number(ONE_SUI), in units of 1/FloatScale.
BalanceInSUI(totalBalance) == (totalBalance * FloatScale) \div ONE_SUI

\* The effect of the draft depends on currentAccount alone: getBalance is
\* called when the account changes, and by no other render.
part002_accountChanged(acct) ==
    /\ acct # currentAccount
    /\ acct # NoAccount => balanceCalls[acct] < MaxBalanceCalls
    /\ currentAccount' = acct
    /\ balanceCalls' = fetchBalance(acct, balanceCalls)
    /\ UNCHANGED << objectOwners, isFetchingOwners, ownerFetch, lookups,
                    balance, balanceOwner, uncaught, downloaded, lastInput, lastResult,
                    numLinks, amountPerLink, generatedLinks, trackedObjectIds, isLoading,
                    error, balanceInMist, building, inFlight >>

part002_balanceFetched(owner, totalBalance) ==
    /\ balanceCalls[owner] > 0
    /\ balance' = Some(BalanceInSUI(totalBalance))
    /\ balanceCalls' = [balanceCalls EXCEPT ![owner] = @ - 1]
    /\ UNCHANGED << objectOwners, isFetchingOwners, ownerFetch, lookups,
                    balanceOwner, uncaught, downloaded, lastInput, lastResult, currentAccount,
                    numLinks, amountPerLink, generatedLinks, trackedObjectIds, isLoading,
                    error, balanceInMist, building, inFlight >>

part002_balanceFailed(owner) ==
    /\ balanceCalls[owner] > 0
    /\ error' = part002_ErrBalance
    /\ balanceCalls' = [balanceCalls EXCEPT ![owner] = @ - 1]
    /\ UNCHANGED << objectOwners, isFetchingOwners, ownerFetch, lookups,
                    balance, balanceOwner, uncaught, downloaded, lastInput, lastResult,
                    currentAccount, numLinks, amountPerLink, generatedLinks, trackedObjectIds,
                    isLoading, balanceInMist, building, inFlight >>

\* Math.min(parseInt(e.target.value) || 1, MAX_LINKS)
InlineNumLinks(text) == Min2(OrDefault(parseInt(text), 1), MAX_LINKS)

\* parseFloat(e.target.value) || 0
InlineAmount(text) == OrDefault(parseFloat(text), 0)

\* onChange of the link-count input.
part002_onChangeNumLinks(text) ==
    /\ numLinks' = InlineNumLinks(text)
    /\ lastInput' = [handler |-> "part002_onChangeNumLinks", text |-> text]
    /\ UNCHANGED << objectOwners, isFetchingOwners, ownerFetch, lookups,
                    balance, balanceOwner, uncaught, downloaded, lastResult, currentAccount,
                    amountPerLink, generatedLinks, trackedObjectIds, isLoading, error,
                    balanceInMist, balanceCalls, building, inFlight >>

\* onChange of the amount input.
part002_onChangeAmount(text) ==
    /\ amountPerLink' = InlineAmount(text)
    /\ lastInput' = [handler |-> "part002_onChangeAmount", text |-> text]
    /\ UNCHANGED << objectOwners, isFetchingOwners, ownerFetch, lookups,
                    balance, balanceOwner, uncaught, downloaded, lastResult, currentAccount,
                    numLinks, generatedLinks, trackedObjectIds, isLoading, error,
                    balanceInMist, balanceCalls, building, inFlight >>

\* createLinks of the draft, from the click to its first await, its early
\* return, or the exception that leaves it: the balance check multiplies the
\* Number (or null) `balance` by the BigInt ONE_SUI before the try block.
part002_createLinks ==
    /\ ~isLoading
    /\ IF NotConnected(currentAccount)
       THEN /\ error' = ErrNoWallet
            /\ uncaught' = ""
            /\ UNCHANGED << isLoading, building >>
       ELSE LET totalSuiNeeded ==
                    convertSUIToMist(amountPerLink) * Min2(numLinks, MAX_LINKS)
                product == Times(ToNumeric(balance), JSBigInt(ONE_SUI))
            IN  IF product = TypeError
                THEN /\ uncaught' = "TypeError"
                     /\ UNCHANGED << error, isLoading, building >>
                ELSE IF product.val < totalSuiNeeded
                THEN /\ error' = part002_ErrInsufficient
                     /\ uncaught' = ""
                     /\ UNCHANGED << isLoading, building >>
                ELSE /\ isLoading' = TRUE
                     /\ error' = ""
                     /\ uncaught' = ""
                     /\ building' =
                          Some([links |-> BuildLinks(numLinks, currentAccount,
                                                     convertSUIToMist(amountPerLink)),
                                linksCount |-> numLinks,
                                totalMistNeeded |-> totalSuiNeeded])
    /\ UNCHANGED << objectOwners, isFetchingOwners, ownerFetch, lookups,
                    balance, balanceOwner, downloaded, lastInput, lastResult, currentAccount,
                    numLinks, amountPerLink, generatedLinks, trackedObjectIds,
                    balanceInMist, balanceCalls, inFlight >>

\* The draft's form, fetches and submit button; no click gets past the
\* balance check, so nothing is ever built or handed over.
NextPart002 ==
    \/ \E acct \in {NoAccount, "0xA"} : part002_accountChanged(acct)
    \/ \E totalBalance \in Balances : part002_balanceFetched("0xA", totalBalance)
    \/ part002_balanceFailed("0xA")
    \/ \E text \in { << "5" >>, << "-", "5" >>, << "1", "0", "1" >> } :
          part002_onChangeNumLinks(text)
    \/ \E text \in { << "0" >>, << "0", ".", "5" >> } : part002_onChangeAmount(text)
    \/ part002_createLinks

SpecPart002 == Init /\ [][NextPart002]_vars

\* The draft's link-count input alone, over every text of the alphabet.
NextPart002NumLinks == \E text \in Texts(FormAlphabet) : part002_onChangeNumLinks(text)

SpecPart002NumLinks == Init /\ [][NextPart002NumLinks]_vars

-----------------------------------------------------------------------------
(* src/unnamed/part_001, lines 1-215: the first draft. The balance is a    *)
(* Number of SUI (null until fetched, and again after a disconnect), the   *)
(* inputs are handled inline as in part_002, the button is never disabled. *)

part001_ErrCreate == "An error occurred while creating links."

\* A render of the draft: the effect runs after each one (`client` is among
\* its dependencies) and, with no account, sets the balance back to null.
part001_accountChanged(acct) ==
    /\ acct # currentAccount
    /\ currentAccount' = acct
    /\ balance' = IF acct = NoAccount THEN Absent ELSE balance
    /\ UNCHANGED << objectOwners, isFetchingOwners, ownerFetch, lookups,
                    balanceOwner, uncaught, downloaded, lastInput, lastResult, numLinks,
                    amountPerLink, generatedLinks, trackedObjectIds, isLoading, error,
                    balanceInMist, building, inFlight >>
    /\ Render(TRUE, balanceCalls)

\* setBalance(Number(totalBalance) / Number(ONE_SUI)); with no account the
\* effect of the render that follows sets null again.
part001_balanceFetched(owner, totalBalance) ==
    /\ balanceCalls[owner] > 0
    /\ balance' = IF currentAccount = NoAccount THEN Absent
                  ELSE Some(BalanceInSUI(totalBalance))
    /\ UNCHANGED << objectOwners, isFetchingOwners, ownerFetch, lookups,
                    balanceOwner, uncaught, downloaded, lastInput, lastResult, currentAccount,
                    numLinks, amountPerLink, generatedLinks, trackedObjectIds, isLoading,
                    error, balanceInMist, building, inFlight >>
    /\ Render(balance' # balance, [balanceCalls EXCEPT ![owner] = @ - 1])

part001_onChangeNumLinks(text) ==
    /\ numLinks' = InlineNumLinks(text)
    /\ lastInput' = [handler |-> "part001_onChangeNumLinks", text |-> text]
    /\ UNCHANGED << objectOwners, isFetchingOwners, ownerFetch, lookups,
                    balance, balanceOwner, uncaught, downloaded, lastResult, currentAccount,
                    amountPerLink, generatedLinks, trackedObjectIds, isLoading, error,
                    balanceInMist, building, inFlight >>
    /\ Render(numLinks' # numLinks, balanceCalls)

part001_onChangeAmount(text) ==
    /\ amountPerLink' = InlineAmount(text)
    /\ lastInput' = [handler |-> "part001_onChangeAmount", text |-> text]
    /\ UNCHANGED << objectOwners, isFetchingOwners, ownerFetch, lookups,
                    balance, balanceOwner, uncaught, downloaded, lastResult, currentAccount,
                    numLinks, generatedLinks, trackedObjectIds, isLoading, error,
                    balanceInMist, building, inFlight >>
    /\ Render(amountPerLink' # amountPerLink, balanceCalls)

\* BigInt(Math.floor(Number(balance) * Number(ONE_SUI))): Number(null) is 0.
part001_BalanceInMist(m) == (ToNumeric(m).val * ONE_SUI) \div FloatScale

\* createLinks of the draft, from the click to its first await (or its
\* early return). One invocation at a time waits for the builder. The
\* submission keeps the balance its check read.
part001_createLinks ==
    /\ ~Has(building)
    /\ IF NotConnected(currentAccount)
       THEN /\ error' = ErrNoWallet
            /\ UNCHANGED << isLoading, building >>
       ELSE LET numLinksToCreate == Min2(numLinks, MAX_LINKS)
                amountInMist == convertSUIToMist(amountPerLink)
                totalSuiNeeded == amountInMist * numLinksToCreate
            IN  IF part001_BalanceInMist(balance) < totalSuiNeeded
                THEN /\ error' = part002_ErrInsufficient
                     /\ UNCHANGED << isLoading, building >>
                ELSE /\ isLoading' = TRUE
                     /\ error' = ""
                     /\ building' =
                          Some([links |-> BuildLinks(numLinksToCreate, currentAccount,
                                                     amountInMist),
                                linksCount |-> numLinksToCreate,
                                totalMistNeeded |-> totalSuiNeeded,
                                balance |-> balance])
    /\ UNCHANGED << objectOwners, isFetchingOwners, ownerFetch, lookups,
                    balance, balanceOwner, uncaught, downloaded, lastInput, lastResult,
                    currentAccount, numLinks, amountPerLink, generatedLinks,
                    trackedObjectIds, balanceInMist, inFlight >>
    /\ Render(error' # error \/ isLoading' # isLoading, balanceCalls)

\* ZkSendLinkBuilder.createLinks resolved: the transaction is handed to
\* signAndExecuteTransaction, which returns at once, and the finally block
\* runs.
part001_signAndExecute ==
    /\ Has(building)
    /\ Len(inFlight) < MaxInFlight
    /\ inFlight' = Append(inFlight, Val(building))
    /\ building' = NoBuild
    /\ isLoading' = FALSE
    /\ UNCHANGED << objectOwners, isFetchingOwners, ownerFetch, lookups,
                    balance, balanceOwner, uncaught, downloaded, lastInput, lastResult,
                    currentAccount, numLinks, amountPerLink, generatedLinks,
                    trackedObjectIds, error, balanceInMist >>
    /\ Render(isLoading' # isLoading, balanceCalls)

\* ZkSendLinkBuilder.createLinks rejected: the catch and finally blocks.
part001_createLinksFailed ==
    /\ Has(building)
    /\ building' = NoBuild
    /\ error' = part001_ErrCreate
    /\ isLoading' = FALSE
    /\ UNCHANGED << objectOwners, isFetchingOwners, ownerFetch, lookups,
                    balance, balanceOwner, uncaught, downloaded, lastInput, lastResult,
                    currentAccount, numLinks, amountPerLink, generatedLinks,
                    trackedObjectIds, balanceInMist, inFlight >>
    /\ Render(error' # error \/ isLoading' # isLoading, balanceCalls)

\* onError of the k-th outstanding transaction.
part001_onError(k) ==
    /\ k \in 1..Len(inFlight)
    /\ inFlight' = Without(inFlight, k)
    /\ error' = part001_ErrCreate
    /\ UNCHANGED << objectOwners, isFetchingOwners, ownerFetch, lookups,
                    balance, balanceOwner, uncaught, downloaded, lastInput, lastResult,
                    currentAccount, numLinks, amountPerLink, generatedLinks,
                    trackedObjectIds, isLoading, balanceInMist, building >>
    /\ Render(error' # error, balanceCalls)

\* The draft's form, fetches and submissions, up to the hand-over and a
\* failure of the transaction.
NextPart001 ==
    \/ \E acct \in {NoAccount, "0xA"} : part001_accountChanged(acct)
    \/ part001_balanceFetched("0xA", 250)
    \/ \E text \in { << "-", "5" >>, << "1", "0", "1" >> } : part001_onChangeNumLinks(text)
    \/ \E text \in { << "0" >>, << "0", ".", "0", "5" >> } : part001_onChangeAmount(text)
    \/ part001_createLinks
    \/ part001_signAndExecute
    \/ part001_createLinksFailed
    \/ \E k \in 1..MaxInFlight : part001_onError(k)

SpecPart001 == Init /\ [][NextPart001]_vars

\* The draft's tracking of the owners of the objects a transaction created.
part001_ErrNoTracked == "No objects are being tracked."
part001_ErrOwners == "An error occurred while fetching object owners."

\* if (event.newObject) objectIds.push(event.newObject.objectId), over
\* result?.effects?.events || []
part001_extractObjectIdsFromResult(result) ==
    LET events == IF Has(EventsOf(result)) THEN Val(EventsOf(result)) ELSE << >>
        withNewObject == SelectSeq(events, LAMBDA event : Has(event.newObject))
    IN  [i \in 1..Len(withNewObject) |-> Val(withNewObject[i].newObject).objectId]

\* onSuccess of the k-th outstanding transaction: the ids and the links are
\* stored, then refreshBalance asks for the balance of the sender.
part001_onSuccess(k, result) ==
    /\ k \in 1..Len(inFlight)
    /\ balanceCalls[currentAccount] < MaxBalanceCalls
    /\ lastResult' = << result >>
    /\ trackedObjectIds' = part001_extractObjectIdsFromResult(result)
    /\ generatedLinks' = DisplayLinks(inFlight[k].links)
    /\ inFlight' = Without(inFlight, k)
    /\ UNCHANGED << objectOwners, isFetchingOwners, ownerFetch, lookups,
                    balance, balanceOwner, uncaught, downloaded, lastInput, currentAccount,
                    numLinks, amountPerLink, isLoading, error, balanceInMist, building >>
    /\ Render(TRUE, fetchBalance(currentAccount, balanceCalls))

\* objectInfo?.data?.owner || "Unknown"
part001_OwnerOf(objectInfo) ==
    IF Has(objectInfo) /\ Has(Val(objectInfo).data) /\ Truthy(Val(Val(objectInfo).data).owner)
    THEN Val(Val(Val(objectInfo).data).owner)
    ELSE "Unknown"

\* A click on Fetch Object Owners (disabled while isFetchingOwners), up to
\* its first await or its early return. The loop runs over the tracked
\* ids of the render the click was made in.
part001_fetchObjectOwners ==
    /\ ~isFetchingOwners
    /\ IF Len(trackedObjectIds) = 0
       THEN /\ error' = part001_ErrNoTracked
            /\ UNCHANGED << isFetchingOwners, ownerFetch, lookups >>
       ELSE /\ isFetchingOwners' = TRUE
            /\ error' = ""
            /\ ownerFetch' = Some([ids |-> trackedObjectIds, ownerDetails |-> << >>])
            /\ lookups' = << >>
    /\ UNCHANGED << objectOwners, balance, balanceOwner, uncaught, downloaded, lastInput,
                    lastResult, currentAccount, numLinks, amountPerLink, generatedLinks,
                    trackedObjectIds, isLoading, balanceInMist, building, inFlight >>
    /\ Render(error' # error \/ isFetchingOwners' # isFetchingOwners, balanceCalls)

\* The failed invocation storing the owners it had collected.
part001_ownerFailedKeepsPartial ==
    /\ Has(ownerFetch)
    /\ objectOwners' = Val(ownerFetch).ownerDetails
    /\ error' = part001_ErrOwners
    /\ isFetchingOwners' = FALSE
    /\ ownerFetch' = Absent
    /\ UNCHANGED << lookups, balance, balanceOwner, uncaught, downloaded, lastInput,
                    lastResult, currentAccount, numLinks, amountPerLink, generatedLinks,
                    trackedObjectIds, isLoading, balanceInMist, building, inFlight >>
    /\ Render(TRUE, balanceCalls)

\* client.getObject resolves for the id the loop is at: the entry is pushed
\* and, after the last id, setObjectOwners(ownerDetails) and the finally
\* block run.
part001_ownerFetched(objectInfo) ==
    /\ Has(ownerFetch)
    /\ UNCHANGED << balance, balanceOwner, uncaught, downloaded, lastInput, lastResult,
                    currentAccount, numLinks, amountPerLink, generatedLinks,
                    trackedObjectIds, isLoading, error, balanceInMist, building, inFlight >>
    /\ LET ids == Val(ownerFetch).ids
           objectId == ids[Len(Val(ownerFetch).ownerDetails) + 1]
           ownerDetails == Append(Val(ownerFetch).ownerDetails,
                                  [objectId |-> objectId,
                                   owner |-> part001_OwnerOf(objectInfo)])
       IN  /\ lookups' = Append(lookups, objectInfo)
           /\ IF Len(ownerDetails) < Len(ids)
              THEN /\ ownerFetch' = Some([ids |-> ids, ownerDetails |-> ownerDetails])
                   /\ UNCHANGED << objectOwners, isFetchingOwners >>
                   /\ Render(FALSE, balanceCalls)
              ELSE /\ objectOwners' = ownerDetails
                   /\ isFetchingOwners' = FALSE
                   /\ ownerFetch' = Absent
                   /\ Render(TRUE, balanceCalls)

\* client.getObject rejects for the id the loop is at: the catch and
\* finally blocks.
part001_ownerFailed ==
    /\ Has(ownerFetch)
    /\ error' = part001_ErrOwners
    /\ isFetchingOwners' = FALSE
    /\ ownerFetch' = Absent
    /\ UNCHANGED << objectOwners, lookups, balance, balanceOwner, uncaught, downloaded,
                    lastInput, lastResult, currentAccount, numLinks, amountPerLink,
                    generatedLinks, trackedObjectIds, isLoading, balanceInMist, building,
                    inFlight >>
    /\ Render(TRUE, balanceCalls)

\* Answers of client.getObject: an object with its owner, an object
\* reported without data, and an answer with no owner in its data.
ObjectInfo(owner) == Some([data |-> Some([owner |-> owner])])
ObjectInfos == { ObjectInfo(Some("0xB")), Some([data |-> Absent]), ObjectInfo(Absent) }

\* Results of transactions: two new objects, one new object beside an event
\* of another shape, and no effects.
OwnerResults ==
    { Result(Absent, Some(<< NewObjectEvent("0x8"), NewObjectEvent("0x9") >>)),
      Result(Absent, Some(<< CreatedEvent("0x6"), NewObjectEvent("0x7") >>)),
      Some([effects |-> Absent]) }

\* The draft with a funded wallet: submissions, their successes, and the
\* owner lookups started from the button.
NextOwners ==
    \/ part001_accountChanged("0xA")
    \/ part001_balanceFetched("0xA", 250)
    \/ part001_createLinks
    \/ part001_signAndExecute
    \/ \E k \in 1..MaxInFlight, result \in OwnerResults : part001_onSuccess(k, result)
    \/ part001_fetchObjectOwners
    \/ \E objectInfo \in ObjectInfos : part001_ownerFetched(objectInfo)
    \/ part001_ownerFailed

SpecOwners == Init /\ [][NextOwners]_vars

-----------------------------------------------------------------------------
(* Properties.                                                             *)

\* C1: from the hand-over of a transaction to signAndExecuteTransaction until
\* its onSuccess or onError is delivered, isLoading is true.
C1_LoadingBracketsSubmission == (inFlight # << >>) => isLoading

\* C2: at most one transaction is in flight at any time: signAndExecuteTransaction
\* is never called while an earlier call has had no callback delivered.
C2_AtMostOneInFlight == Len(inFlight) <= 1

\* C3: createLinks invoked with no account connected sets the error message
\* and issues no external call: no ZkSendLinkBuilder.createLinks, no
\* signAndExecuteTransaction, no client.getBalance.
C3_NoAccountNoExternalCall ==
    [][ (createLinks /\ currentAccount = NoAccount)
          => /\ error' = ErrNoWallet
             /\ building' = building
             /\ inFlight' = inFlight
             /\ balanceCalls' = balanceCalls ]_vars

C3_Witness ==
    /\ currentAccount = NoAccount
    /\ error = ErrNoWallet
    /\ building = NoBuild
    /\ inFlight = << >>

\* C4: createLinks invoked with an account connected and (amount per link in
\* MIST) x min(numLinks, 100) above balanceInMist sets the insufficient-balance
\* error; no transaction is built or handed to signAndExecuteTransaction.
C4_InsufficientBalanceBlocks ==
    [][ ( /\ createLinks
          /\ currentAccount # NoAccount
          /\ convertSUIToMist(amountPerLink) * Min2(numLinks, MAX_LINKS) > balanceInMist )
          => /\ error' = ErrInsufficient
             /\ building' = building
             /\ inFlight' = inFlight ]_vars

C4_Witness ==
    /\ currentAccount # NoAccount
    /\ error = ErrInsufficient
    /\ balanceInMist > 0
    /\ convertSUIToMist(amountPerLink) * Min2(numLinks, MAX_LINKS) > balanceInMist
    /\ building = NoBuild

\* C5: every delivery of onSuccess, with an account connected, triggers a
\* balance refresh: a client.getBalance call for the connected account is
\* issued by that delivery, not before it.
C5_SuccessTriggersRefresh ==
    [][ ( /\ currentAccount # NoAccount
          /\ Len(inFlight') < Len(inFlight)
          /\ \E k \in 1..MaxInFlight, result \in Results, rethrown \in BOOLEAN :
                onSuccess(k, result, rethrown) )
          => balanceCalls'[currentAccount] = balanceCalls[currentAccount] + 1 ]_vars

C5_Witness ==
    /\ lastResult # << >>
    /\ generatedLinks # << >>
    /\ currentAccount # NoAccount
    /\ balanceCalls[currentAccount] > 0

\* A text with no digit, and a text of digits only.
NoDigit(text) == \A i \in 1..Len(text) : text[i] \notin DigitChars
AllDigits(text) == Len(text) > 0 /\ \A i \in 1..Len(text) : text[i] \in DigitChars
Negative(text) == Len(text) > 1 /\ text[1] = "-" /\ AllDigits(Tail(text))

\* C6: numLinks is within [1,100] in every state; a non-numeric input is
\* stored as 1, a number below 1 (zero, a negative) as 1, a number above 100
\* as 100, any other number as it is.
C6_NumLinksClamped ==
    /\ numLinks \in 1..MAX_LINKS
    /\ lastInput.handler = "handleNumLinksChange"
         => LET text == lastInput.text
                v == DecValue(text, 1, Len(text) + 1)
            IN  /\ NoDigit(text) => numLinks = 1
                /\ Negative(text) => numLinks = 1
                /\ AllDigits(text)
                     => numLinks = IF v < 1 THEN 1 ELSE IF v > 100 THEN 100 ELSE v

C6_Witness ==
    /\ lastInput.handler = "handleNumLinksChange"
    /\ AllDigits(lastInput.text)
    /\ DecValue(lastInput.text, 1, Len(lastInput.text) + 1) > 100
    /\ numLinks = 100

\* A text of digits with at most one "." among them, and its value in
\* 1/FloatScale.
DotAt(text) ==
    IF \E i \in 1..Len(text) : text[i] = "."
    THEN CHOOSE i \in 1..Len(text) : text[i] = "." /\ \A j \in 1..(i - 1) : text[j] # "."
    ELSE Len(text) + 1
PlainDecimal(text) ==
    /\ \E i \in 1..Len(text) : text[i] \in DigitChars
    /\ \A i \in 1..Len(text) : text[i] \in DigitChars \/ i = DotAt(text)
DecimalValue(text) ==
    DecValue(text, 1, DotAt(text)) * FloatScale
      + FracValue(text, DotAt(text) + 1, Len(text) + 1, FloatScale \div 10)

\* C7: amountPerLink is at least MIN_AMOUNT in every state; an input that is
\* non-numeric or below the minimum is stored as the minimum, an input at or
\* above the minimum is stored unchanged.
C7_AmountAtLeastMinimum ==
    /\ amountPerLink >= MIN_AMOUNT
    /\ lastInput.handler = "handleAmountChange"
         => LET text == lastInput.text
            IN  /\ NoDigit(text) => amountPerLink = MIN_AMOUNT
                /\ Negative(text) => amountPerLink = MIN_AMOUNT
                /\ PlainDecimal(text)
                     => amountPerLink = IF DecimalValue(text) < MIN_AMOUNT
                                        THEN MIN_AMOUNT ELSE DecimalValue(text)

C7_Witness ==
    /\ lastInput.handler = "handleAmountChange"
    /\ PlainDecimal(lastInput.text)
    /\ DecimalValue(lastInput.text) > 0
    /\ DecimalValue(lastInput.text) < MIN_AMOUNT
    /\ amountPerLink = MIN_AMOUNT

\* The submissions under way: the one being built and those handed over.
Submissions == { inFlight[i] : i \in 1..Len(inFlight) }
                 \cup (IF Has(building) THEN { Val(building) } ELSE {})

RECURSIVE SumMist(_)
SumMist(links) == IF links = << >> THEN 0 ELSE Head(links).mist + SumMist(Tail(links))

\* C8: a submission that passed the checks holds one link request per link,
\* all with the same claimable amount, in one transaction: their number is
\* the clamped count of the balance check and their amounts add up to the
\* total that was compared against the balance.
C8_OneRequestPerLink ==
    \A tx \in Submissions :
        /\ Len(tx.links) = tx.linksCount
        /\ tx.linksCount \in 1..MAX_LINKS
        /\ \A i \in 1..Len(tx.links) : tx.links[i].mist = tx.links[1].mist
        /\ SumMist(tx.links) = tx.totalMistNeeded

C8_Witness ==
    \E i \in 1..Len(inFlight) :
        /\ Len(inFlight[i].links) = MAX_LINKS
        /\ inFlight[i].totalMistNeeded = MAX_LINKS * convertSUIToMist(MIN_AMOUNT)

\* C9: when a submission fails (the build rejects, or onError is delivered)
\* a non-empty error is set, the loading flag is cleared unless a later click
\* has a submission being built, generatedLinks and trackedObjectIds are left
\* unchanged, and nothing is handed to signAndExecuteTransaction or built
\* again.
C9_FailureHandled ==
    [][ (createLinksFailed \/ \E k \in 1..MaxInFlight : onError(k))
          => /\ error' # ""
             /\ isLoading' => Has(building')
             /\ generatedLinks' = generatedLinks
             /\ trackedObjectIds' = trackedObjectIds
             /\ Len(inFlight') <= Len(inFlight)
             /\ Has(building') => building' = building ]_vars

C9_Witness ==
    /\ error = ErrCreate
    /\ ~isLoading
    /\ building = NoBuild
    /\ generatedLinks # << >>

\* C10: for a result whose effects.created is non-empty, the ids extracted
\* are the objectId of each entry, one per entry and in list order, whatever
\* events the result holds.
C10_CreatedIdsInOrder ==
    (lastResult # << >> /\ Has(CreatedOf(lastResult[1]))
       /\ Len(Val(CreatedOf(lastResult[1]))) > 0)
      => LET created == Val(CreatedOf(lastResult[1]))
         IN  /\ Len(trackedObjectIds) = Len(created)
             /\ \A i \in 1..Len(created) : trackedObjectIds[i] = created[i].objectId

C10_Witness ==
    /\ lastResult # << >>
    /\ Has(CreatedOf(lastResult[1]))
    /\ Has(EventsOf(lastResult[1]))
    /\ Len(Val(EventsOf(lastResult[1]))) > 0
    /\ trackedObjectIds = << Some("0x2"), Some("0x1") >>

\* The ids src/unnamed/part_000 reads from the created list of a result.
ReferenceIds(result) ==
    LET created == IF Has(CreatedOf(result)) THEN Val(CreatedOf(result)) ELSE << >>
    IN  SelectSeq([i \in 1..Len(created) |->
                     IF Has(created[i].reference)
                     THEN Val(created[i].reference).objectId ELSE Absent],
                  Truthy)

\* C11: in src/unnamed/part_000 the first non-empty shape wins: when the
\* created list yields at least one id, the ids returned are exactly those,
\* with no id taken from events.
C11_FirstNonEmptyWins ==
    (lastResult # << >> /\ ReferenceIds(lastResult[1]) # << >>)
      => trackedObjectIds = ReferenceIds(lastResult[1])

\* The events of a result that match the fallback shapes, in event order.
MatchingEvents(result) ==
    IF Has(EventsOf(result)) THEN SelectSeq(Val(EventsOf(result)), IsCreatedEvent) ELSE << >>

NoCreated(result) ==
    ~Has(CreatedOf(result)) \/ Val(CreatedOf(result)) = << >>

\* C12: for a result with no created list (or an empty one) and events that
\* match the fallback shapes, the ids extracted are one id for each matching
\* event, in event order.
C12_OneIdPerMatchingEvent ==
    (lastResult # << >> /\ NoCreated(lastResult[1])
       /\ MatchingEvents(lastResult[1]) # << >>)
      => LET matching == MatchingEvents(lastResult[1])
         IN  /\ Len(trackedObjectIds) = Len(matching)
             /\ \A i \in 1..Len(matching) :
                    /\ Truthy(trackedObjectIds[i])
                    /\ trackedObjectIds[i] \in
                         { matching[i].objectId } \cup
                         (IF Has(matching[i].newObject)
                          THEN { Val(matching[i].newObject).objectId } ELSE {})

\* An event that carries an id where the fallback looks for one, and that id.
CarriesId(event) ==
    \/ event.objectId \notin {Absent, Some("")}
    \/ Has(event.newObject) /\ Val(event.newObject).objectId \notin {Absent, Some("")}
IdCarried(event) ==
    IF event.objectId \notin {Absent, Some("")} THEN event.objectId
    ELSE Val(event.newObject).objectId

\* C12 (amended): for a result with no created list (or an empty one), the
\* ids extracted are those of the matching events that carry an id (their
\* objectId, else their newObject.objectId), in event order; a matching
\* event without one, such as a move event matched by its type alone,
\* contributes nothing.
C12_IdsOfMatchingEventsWithId ==
    (lastResult # << >> /\ NoCreated(lastResult[1]))
      => LET carrying == SelectSeq(MatchingEvents(lastResult[1]), CarriesId)
         IN  /\ Len(trackedObjectIds) = Len(carrying)
             /\ \A i \in 1..Len(carrying) : trackedObjectIds[i] = IdCarried(carrying[i])

C12_Witness ==
    /\ lastResult # << >>
    /\ NoCreated(lastResult[1])
    /\ Len(MatchingEvents(lastResult[1])) = 2
    /\ trackedObjectIds = << Some("0x9"), Some("0x8") >>

\* C13: a success whose result has neither a non-empty created list nor a
\* matching event (a missing or malformed result included) leaves
\* trackedObjectIds empty, stores one link per submitted request and sets no
\* error message.
C13_EmptyExtractionContinues ==
    [][ ( /\ Len(inFlight') < Len(inFlight)
          /\ \E result \in EventResults, rethrown \in BOOLEAN : onSuccess(1, result, rethrown)
          /\ NoCreated(lastResult'[1])
          /\ MatchingEvents(lastResult'[1]) = << >> )
          => /\ trackedObjectIds' = << >>
             /\ Len(generatedLinks') = Len(inFlight[1].links)
             /\ error' = error ]_vars

\* C14: after a transaction success generatedLinks holds, for every link
\* request of that transaction and in request order, the request's URL with
\* the host zksend.com replaced by getstashed.com; no stored link contains
\* the builder's default host.
C14_DisplayHostReplaced ==
    [][ \A k \in 1..MaxInFlight :
          ( /\ k <= Len(inFlight)
            /\ Len(inFlight') < Len(inFlight)
            /\ \E result \in Results, rethrown \in BOOLEAN : onSuccess(k, result, rethrown) )
            => /\ Len(generatedLinks') = Len(inFlight[k].links)
               /\ \A i \in 1..Len(generatedLinks') :
                      /\ generatedLinks'[i]
                            = << "https://", "getstashed.com", inFlight[k].links[i].key >>
                      /\ ~Includes(generatedLinks'[i], "zksend.com") ]_vars

C14_Witness ==
    /\ lastResult # << >>
    /\ Len(generatedLinks) = MAX_LINKS
    /\ generatedLinks[2] = << "https://", "getstashed.com", "2" >>

\* C15: a failed balance fetch sets the error message and leaves the balance
\* shown as unavailable: after the failure no numeric balance (the initial 0
\* or a value fetched before) is presented as the account's balance.
C15_FailedFetchShowsNoBalance ==
    [][ (\E owner \in Addresses : balanceFailed(owner))
          => /\ error' = ErrBalance
             /\ ~Has(BalanceShown') ]_vars

\* The parts of a text from position a, n of them.
Parts(text, a, n) == SubSeq(text, a, a + n - 1)

\* C16: the download holds one entry per generated link, in order; entry i
\* pairs generatedLinks[i] with trackedObjectIds[i] when that id exists and
\* with "N/A" otherwise (fewer ids than links included); ids beyond the
\* number of links are not written; the file name embeds the current date.
\* (An entry is 8 parts long: the label, the 3 parts of the URL, a line
\* break, the id label, the id, a line break; one more line break separates
\* two entries.)
C16_DownloadPairsLinksWithIds ==
    [][ \A now \in Clock :
          downloadLinksAndObjects(now)
            => LET file == Val(downloaded')
                   n == Len(generatedLinks)
               IN  /\ Len(file.data) = IF n = 0 THEN 0 ELSE 9 * n - 1
                   /\ \A i \in 1..n :
                          LET entry == Parts(file.data, 9 * (i - 1) + 1, 8)
                          IN  /\ entry[1] = "Link: "
                              /\ Parts(entry, 2, 3) = generatedLinks[i]
                              /\ entry[5] = "\n"
                              /\ entry[6] = "Object ID: "
                              /\ entry[7] = IF /\ i <= Len(trackedObjectIds)
                                              /\ trackedObjectIds[i] \notin {Absent, Some("")}
                                           THEN trackedObjectIds[i][1] ELSE "N/A"
                              /\ entry[8] = "\n"
                   /\ \A i \in 1..(n - 1) : file.data[9 * i] = "\n"
                   /\ file.download = << "getstashed_links_", now[1], ".txt" >> ]_vars

\* A file of two entries, the first with its id and the second without, and
\* a file of one entry written while two ids are tracked.
C16_Witness ==
    /\ Has(downloaded)
    /\ Len(generatedLinks) = 2
    /\ Len(trackedObjectIds) = 1
    /\ Len(Val(downloaded).data) = 17
    /\ Val(downloaded).data[7] = "0x1"
    /\ Val(downloaded).data[16] = "N/A"
    /\ Val(downloaded).download = << "getstashed_links_", "2024-05-02", ".txt" >>

\* C17: in src/unnamed/part_002 createLinks invoked with an account
\* connected, whatever the balance (fetched or not), ends in a handled
\* outcome: the insufficient-balance message with nothing built, or the
\* submission started; it never ends with an uncaught exception.
C17_SubmitNeverCrashes ==
    [][ (part002_createLinks /\ currentAccount # NoAccount)
          => /\ uncaught' = ""
             /\ \/ error' = part002_ErrInsufficient /\ building' = building
                \/ Has(building') ]_vars

\* C18: in src/unnamed/part_002 the stored link count is within [1,100] in
\* every state, whatever was typed into the link-count input.
C18_InlineNumLinksClamped == numLinks \in 1..MAX_LINKS

\* C19: in the first draft of src/unnamed/part_001 every transaction handed
\* to signAndExecuteTransaction holds between 1 and 100 link requests, each
\* with a claimable amount of at least the positive minimum, and its total
\* does not exceed a balance that was fetched.
C19_DraftSubmissionWithinLimits ==
    \A k \in 1..Len(inFlight) :
        LET tx == inFlight[k]
        IN  /\ Len(tx.links) \in 1..MAX_LINKS
            /\ \A i \in 1..Len(tx.links) : tx.links[i].mist >= convertSUIToMist(MIN_AMOUNT)
            /\ Has(tx.balance)
            /\ SumMist(tx.links) <= (Val(tx.balance) * ONE_SUI) \div FloatScale

\* C20: whenever createLinks lets a submission of sender S past the
\* sufficiency check, the balance it compared was returned by a getBalance
\* call for S, whatever the interleaving of account switches, disconnects
\* and pending fetches.
C20_BalanceOfTheSender ==
    [][ (createLinks /\ Has(building'))
          => /\ Val(building').links[1].sender = currentAccount
             /\ balanceOwner = currentAccount ]_vars

\* C21: generatedLinks and trackedObjectIds describe the same transaction:
\* both are empty until a success is delivered, and a step that writes
\* either of them is the delivery of one transaction's onSuccess, which
\* writes both, the links of that transaction and the ids of its result,
\* whatever the order in which the outstanding transactions succeed.
C21_LinksAndIdsOfOneTransaction ==
    [][ /\ lastResult = << >> => (generatedLinks = << >> /\ trackedObjectIds = << >>)
        /\ (generatedLinks' # generatedLinks \/ trackedObjectIds' # trackedObjectIds)
             => \E k \in 1..Len(inFlight) :
                   /\ inFlight' = Without(inFlight, k)
                   /\ lastResult' # << >>
                   /\ trackedObjectIds' = extractObjectIdsFromResult(lastResult'[1])
                   /\ Len(generatedLinks') = Len(inFlight[k].links)
                   /\ \A i \in 1..Len(generatedLinks') :
                          generatedLinks'[i][3] = inFlight[k].links[i].key ]_vars

\* The later of two transactions has succeeded first: its two links and its
\* id are stored while the earlier one, of one link, is outstanding.
C21_Witness ==
    /\ Len(generatedLinks) = 2
    /\ trackedObjectIds = << Some("0x1") >>
    /\ Len(inFlight) = 1
    /\ Len(inFlight[1].links) = 1

\* C22: a transaction keeps the links and amounts of the form as it was at
\* the click: as many links as numLinks then, each of amountPerLink then;
\* a change of numLinks or amountPerLink leaves the submission being built
\* and those in flight as they are, the hand-over passes the links on
\* unchanged, and onSuccess stores as many links as were submitted.
C22_FormChangesDoNotReachSubmissions ==
    [][ /\ (createLinks /\ Has(building'))
             => /\ Len(Val(building').links) = numLinks
                /\ Val(building').linksCount = numLinks
                /\ \A i \in 1..numLinks :
                       Val(building').links[i].mist = (amountPerLink * ONE_SUI) \div FloatScale
        /\ (numLinks' # numLinks \/ amountPerLink' # amountPerLink)
             => /\ building' = building
                /\ inFlight' = inFlight
                /\ generatedLinks' = generatedLinks
        /\ Len(inFlight') > Len(inFlight)
             => (Has(building) /\ inFlight' = Append(inFlight, Val(building)))
        /\ generatedLinks' # generatedLinks
             => \E k \in 1..Len(inFlight) :
                   /\ inFlight' = Without(inFlight, k)
                   /\ Len(generatedLinks') = inFlight[k].linksCount ]_vars

\* One link of 0.1 SUI is in flight while the form says two links of 0.2.
C22_Witness ==
    /\ Len(inFlight) = 1
    /\ inFlight[1].linksCount = 1
    /\ inFlight[1].links[1].mist = 100
    /\ numLinks = 2
    /\ amountPerLink = 2 * MIN_AMOUNT

\* C23: a createLinks invocation rejected by a pre-check (no account, or a
\* balance below the total) changes the error message and nothing else of
\* the component's state: isLoading, generatedLinks, trackedObjectIds,
\* balanceInMist, numLinks and amountPerLink are left as they were.
C23_RejectionChangesOnlyError ==
    [][ ( /\ building' = building
          /\ error' \in {ErrNoWallet, ErrInsufficient}
          /\ createLinks )
          => /\ isLoading' = isLoading
             /\ generatedLinks' = generatedLinks
             /\ trackedObjectIds' = trackedObjectIds
             /\ balanceInMist' = balanceInMist
             /\ numLinks' = numLinks
             /\ amountPerLink' = amountPerLink
             /\ inFlight' = inFlight
             /\ error' = IF currentAccount = NoAccount THEN ErrNoWallet ELSE ErrInsufficient ]_vars

\* A click rejected for its balance after an earlier success: the links and
\* ids of that success are still shown.
C23_Witness ==
    /\ error = ErrInsufficient
    /\ ~isLoading
    /\ generatedLinks # << >>
    /\ trackedObjectIds # << >>
    /\ numLinks = MAX_LINKS

\* C24: no transaction is handed to signAndExecuteTransaction before a
\* balance fetch has succeeded with a positive balance. The balance starts
\* at 0 and changes only when a fetch resolves; the form holds a count of at
\* least 1 and an amount of at least the minimum, so the total needed is
\* positive and the sufficiency check rejects every click while the balance
\* is 0.
C24_NoSubmissionBeforePositiveBalance ==
    [][ /\ balanceOwner = NoAccount
           => (balanceInMist = 0 /\ building = NoBuild /\ inFlight = << >>)
        /\ balanceInMist' # balanceInMist
           => (balanceOwner' # NoAccount /\ balanceInMist' \in {0, 250})
        /\ (numLinks >= 1 /\ amountPerLink >= MIN_AMOUNT /\ totalMistNeededOf > 0)
        /\ (createLinks /\ balanceInMist = 0) => (building' = building /\ error' # "")
        /\ building' # building /\ Has(building')
           => (balanceInMist > 0 /\ balanceOwner # NoAccount)
        /\ Len(inFlight') > Len(inFlight)
           => (Has(building) /\ balanceOwner # NoAccount) ]_vars

\* A click on a connected wallet whose balance was never fetched, after a
\* negative amount was typed: rejected for its balance.
C24_Witness ==
    /\ currentAccount # NoAccount
    /\ balanceOwner = NoAccount
    /\ balanceInMist = 0
    /\ error = ErrInsufficient
    /\ lastInput.text = << "-", "1" >>
    /\ inFlight = << >>

\* The entries fetchObjectOwners builds from the ids it iterates and the
\* answers it was given.
OwnerEntries(ids, answers) ==
    [i \in 1..Len(ids) |->
        [objectId |-> ids[i],
         owner |-> IF /\ Has(answers[i])
                      /\ Has(Val(answers[i]).data)
                      /\ Has(Val(Val(answers[i]).data).owner)
                   THEN Val(Val(Val(answers[i]).data).owner)
                   ELSE "Unknown"]]

\* C25: fetchObjectOwners of the first draft is all-or-nothing and
\* bracketed. A click with no tracked ids sets the error and starts no
\* lookup. Otherwise isFetchingOwners is true exactly while a lookup of the
\* invocation is awaited; objectOwners changes only when the last lookup
\* resolves, to one entry per id the invocation iterated, in order, with
\* owner "Unknown" for an answer carrying none; a lookup that fails ends the
\* invocation with objectOwners as it was, the error set and
\* isFetchingOwners false.
C25_OwnerFetchAllOrNothing ==
    [][ /\ isFetchingOwners = Has(ownerFetch)
        /\ (part001_fetchObjectOwners /\ Len(trackedObjectIds) = 0)
             => /\ error' = part001_ErrNoTracked
                /\ ownerFetch' = Absent
                /\ isFetchingOwners' = FALSE
                /\ objectOwners' = objectOwners
        /\ (part001_fetchObjectOwners /\ Len(trackedObjectIds) > 0)
             => /\ isFetchingOwners'
                /\ Has(ownerFetch')
                /\ Val(ownerFetch').ids = trackedObjectIds
                /\ objectOwners' = objectOwners
        /\ (Has(ownerFetch) /\ Has(ownerFetch'))
             => (isFetchingOwners' /\ objectOwners' = objectOwners
                 /\ Val(ownerFetch').ids = Val(ownerFetch).ids)
        /\ objectOwners' # objectOwners
             => /\ Has(ownerFetch) /\ ~Has(ownerFetch')
                /\ Len(lookups') = Len(Val(ownerFetch).ids)
        /\ (Has(ownerFetch) /\ ~Has(ownerFetch') /\ lookups' # lookups)
             => /\ objectOwners' = OwnerEntries(Val(ownerFetch).ids, lookups')
                /\ ~isFetchingOwners'
                /\ error' = error
        /\ (Has(ownerFetch) /\ ~Has(ownerFetch') /\ lookups' = lookups)
             => /\ objectOwners' = objectOwners
                /\ error' = part001_ErrOwners
                /\ ~isFetchingOwners' ]_vars

\* Two owners fetched, the second one unknown, and kept through a later
\* invocation whose second lookup failed.
C25_Witness ==
    /\ Len(objectOwners) = 2
    /\ objectOwners[1] = [objectId |-> Some("0x8"), owner |-> "0xB"]
    /\ objectOwners[2] = [objectId |-> Some("0x9"), owner |-> "Unknown"]
    /\ error = part001_ErrOwners
    /\ ~isFetchingOwners
    /\ Len(lookups) = 1

====
